---- MODULE Spec2Model ----
(***************************************************************************)
(* A model of glvideo::Movie (include/Movie.h): the buffering-and-pacing   *)
(* pipeline between the background reader and the caller's update().       *)
(*                                                                         *)
(* Movie.h declares the state and defines the inline members (Options,     *)
(* isPlaying, loop, getPlaybackRate, incrementReadFraction,                *)
(* getReadSample).  The bodies of the other members and of                 *)
(* concurrent_buffer live outside the header; they are modelled from the   *)
(* design document (spec.md sections 4.1 to 4.6) and marked so in          *)
(* MODEL_MAP.json.                                                         *)
(*                                                                         *)
(* Representation.                                                         *)
(*  - A Frame is the index of the sample it was decoded from.              *)
(*  - Time is counted in ticks; one sample lasts SampleTicks ticks, so the *)
(*    track lasts Duration = NumSamples * SampleTicks ticks.               *)
(*  - m_readFraction (a double in the code) is kept as the numerator of a  *)
(*    fraction over Duration: the value v stands for v / Duration.  The    *)
(*    increment m_fpf = 1/numSamples is then SampleTicks and               *)
(*    getReadSample, (size_t)(fraction * numSamples), is v \div            *)
(*    SampleTicks.  Rounding drift of the double is outside this model.    *)
(*  - elapsed is clock::now() - m_lastFrameQueuedAt, counted in sample     *)
(*    pacing intervals at the native rate (1/framerate) and saturating at  *)
(*    one: 0 is "less than an interval ago", 1 is "an interval or more".   *)
(*  - The playback rates tried are 0 (paused) and 1 (native).              *)
(*  - The prebuffer option is read once, by the constructor; it is the     *)
(*    constructor's input rather than a stored member.                     *)
(***************************************************************************)
EXTENDS Integers, Sequences, FiniteSets, TLC

\* ---------------------------------------------------------------- bounds
NumSamples == 3          \* track length (samples) when the reader thread runs
ScenarioSamples == 10    \* track length of the runs on the caller's thread alone
SampleTicks == 2         \* clock ticks per sample
NumWriters == 3          \* concurrent incrementReadFraction calls in the progress-tracker runs

\* ------------------------------------------------------ program constants
DefaultCpuBufferSize == 2
DefaultGpuBufferSize == 2

VARIABLES
    m_numSamples,               \* size_t, the video track's sample count
    corrupt,                    \* the samples of the file that the decoder fails on
    m_options,                  \* Options: cpuBufferSize, gpuBufferSize
    m_isPlaying,                \* std::atomic_bool
    m_jobsPending,              \* std::atomic_bool
    m_loop,                     \* std::atomic_bool
    m_readFraction,             \* std::atomic<double>, numerator over Duration
    m_playbackRate,             \* float
    m_forceRefreshCurrentFrame, \* bool
    m_currentFrame,             \* published frame, NoFrame for nullptr
    m_cpuFrameBuffer,           \* concurrent_buffer< Frame::ref >
    m_gpuFrameBuffer,           \* concurrent_buffer< Frame::ref >
    elapsed,                    \* clock::now() - m_lastFrameQueuedAt
    readerPc,                   \* position of the reader thread
    r_sample,                   \* reader local: the sample index it computed
    r_current,                  \* reader local: `current` of incrementReadFraction
    r_stale,                    \* history: a seek() overwrote the progress after the reader computed r_sample
    readerThreads,              \* the number of reader threads started and not yet exited
    callerPc,                   \* position of the caller's thread
    lastCall,                   \* history: the last call that returned, if stop, seek or the constructor
    seekTarget,                 \* history: the time given to that seek()
    stoppedBy,                  \* history: what last cleared m_isPlaying
    adv                         \* the writers of the progress-tracker runs: start value, positions, locals

vars == << m_numSamples, corrupt, m_options, m_isPlaying, m_jobsPending, m_loop, m_readFraction,
           m_playbackRate, m_forceRefreshCurrentFrame, m_currentFrame,
           m_cpuFrameBuffer, m_gpuFrameBuffer, elapsed, readerPc, r_sample,
           r_current, r_stale, readerThreads, callerPc, lastCall, seekTarget,
           stoppedBy, adv >>

Duration == m_numSamples * SampleTicks
\* play() past the end of the track is followed this far and no further.
OverrunCap == Duration + SampleTicks
NoFrame == -1
PlaybackRates == {0, 1}

\* ------------------------------------------------------- inline members

\* Mutant: the CPU buffer is built one slot larger than the option asks for.
cpuBufferSize_Mut == m_options.cpuBufferSize + 1

\* Options::cpuBufferSize(): the capacity the CPU buffer is built with.
cpuBufferSize == m_options.cpuBufferSize

\* Mutant: the GPU buffer is built one slot smaller than the option asks for.
gpuBufferSize_Mut == m_options.gpuBufferSize - 1

\* Options::gpuBufferSize(): the capacity the GPU buffer is built with.
gpuBufferSize == m_options.gpuBufferSize

\* bool isPlaying() const { return m_isPlaying; }
isPlaying == m_isPlaying

\* Mutant: a rate of 0 is taken for the native rate.
getPlaybackRate_Mut == IF m_playbackRate = 0 THEN 1 ELSE m_playbackRate

\* float getPlaybackRate() const { return m_playbackRate; }
getPlaybackRate == m_playbackRate

\* Mutant: the movie never loops at its end.
LoopsAtEnd_MutNever == FALSE

\* Mutant: the movie loops at its end whatever loop() was given.
LoopsAtEnd_MutAlways == TRUE

\* loop(): "whether the movie should automatically loop when it reaches the end".
LoopsAtEnd == m_loop

\* size_t getReadSample() const { return (size_t)(m_readFraction * m_numSamples); }
getReadSample(fraction) == fraction \div SampleTicks

\* Mutant: the exchange stores without comparing (a plain load, add, store).
ExchangeSucceeds_Mut(current) == TRUE

\* compare_exchange_weak(current, ...): succeeds only if the value is still `current`.
ExchangeSucceeds(current) == m_readFraction = current

\* Mutant: the advance itself wraps the fraction back into [0,1).
AdvancedFraction_Mut(current) == (current + SampleTicks) % Duration

\* `current + increment` of incrementReadFraction, increment being m_fpf = 1/numSamples.
AdvancedFraction(current) == current + SampleTicks

\* ------------------------------------------------------------ collaborators

\* Movie::getFrame: the decoded frame of sample i; no frame for an index outside
\* the track or for a sample the decoder fails on.
getFrame(i) == IF i \in 0..(m_numSamples - 1) /\ i \notin corrupt THEN i ELSE NoFrame

\* Mutant: stop() and seek() do not close the buffer.
cpuClosed_Mut == FALSE

\* concurrent_buffer is closed while stop() or seek() is resetting the pipeline.
cpuClosed == callerPc \in {"stop", "seek"}

\* The progress tracker has reached the end of the stream.
EndOfStream(fraction) == fraction >= Duration

\* ---------------------------------------------- the synchronous decode path
\* A pipeline state as the caller's thread sees it while it drives the decode
\* step itself: [frac, cpu, gpu, cur, playing].

Pipeline == [frac |-> m_readFraction, cpu |-> m_cpuFrameBuffer, gpu |-> m_gpuFrameBuffer,
             cur |-> m_currentFrame, playing |-> m_isPlaying]

\* The decode step (4.3 a-d): index from the progress tracker, decode, enqueue,
\* advance by 1/numSamples; at end-of-stream wrap to 0 when looping, else stop.
bufferNextCPUSample(s) ==
    LET f == getFrame(getReadSample(s.frac))
        cpu1 == IF f = NoFrame THEN s.cpu ELSE Append(s.cpu, f)
        frac1 == AdvancedFraction(s.frac)
    IN  IF Len(s.cpu) >= cpuBufferSize THEN s
        ELSE IF EndOfStream(frac1)
             THEN IF LoopsAtEnd
                  THEN [s EXCEPT !.cpu = cpu1, !.frac = 0]
                  ELSE [s EXCEPT !.cpu = cpu1, !.frac = frac1, !.playing = FALSE]
             ELSE [s EXCEPT !.cpu = cpu1, !.frac = frac1]

\* The upload step (4.4): a non-blocking pop of the CPU buffer into a free GPU slot.
bufferNextGPUSample(s) ==
    IF Len(s.gpu) < gpuBufferSize /\ s.cpu # << >>
    THEN [s EXCEPT !.cpu = Tail(s.cpu), !.gpu = Append(s.gpu, Head(s.cpu))]
    ELSE s

\* Section 8: after prebuffering, getCurrentFrame() is set without any update():
\* the first uploaded frame is published when nothing has been published yet.
publishFirstFrame(s) ==
    IF s.cur = NoFrame /\ s.gpu # << >>
    THEN [s EXCEPT !.cur = Head(s.gpu), !.gpu = Tail(s.gpu)]
    ELSE s

doPrebufferWork(s) == publishFirstFrame(bufferNextGPUSample(bufferNextCPUSample(s)))

\* The prebuffer loop ends when both buffers are full, or at end-of-stream
\* without looping (the decode step has stopped).
PrebufferDone(s) ==
    \/ Len(s.cpu) >= cpuBufferSize /\ Len(s.gpu) >= gpuBufferSize
    \/ EndOfStream(s.frac) /\ ~LoopsAtEnd

RECURSIVE prebufferLoop(_)
prebufferLoop(s) == IF PrebufferDone(s) THEN s ELSE prebufferLoop(doPrebufferWork(s))

\* seconds getElapsedTime() const: the position of the playhead, in ticks.
getElapsedTime == m_readFraction

\* Mutant: the pacing check looks at the rate only, not at the time elapsed.
PacingElapsed_Mut == getPlaybackRate > 0

\* The pacing check of update(): elapsed time exceeds 1 / (framerate * playbackRate).
PacingElapsed == getPlaybackRate > 0 /\ elapsed * getPlaybackRate >= 1

\* Mutant: play() takes the reader for not running whenever the movie is not playing.
ReaderRunning_Mut == FALSE

\* play() "starts the Read Scheduler if not already running".
ReaderRunning == readerPc # "none"

\* Mutant: stop() returns without joining the reader.
ReaderExited_Mut == TRUE

\* The reader thread has run to its end (what stop()'s join waits for).
ReaderExited == readerPc = "none"

\* ------------------------------------------------------------------ Init
\* The state on entry to the constructor body: members at their in-class
\* initialisers, the options as passed by the caller.
InitWith(numSamples) ==
    /\ m_numSamples = numSamples
    /\ m_options \in [cpuBufferSize : 1..DefaultCpuBufferSize,
                      gpuBufferSize : 1..DefaultGpuBufferSize]
    /\ m_isPlaying = FALSE
    /\ m_jobsPending = FALSE
    /\ m_loop = FALSE
    /\ m_readFraction = 0
    /\ m_playbackRate = 1
    /\ m_forceRefreshCurrentFrame = FALSE
    /\ m_currentFrame = NoFrame
    /\ m_cpuFrameBuffer = << >>
    /\ m_gpuFrameBuffer = << >>
    /\ elapsed = 0
    /\ readerPc = "none"
    /\ r_sample = 0
    /\ r_current = 0
    /\ r_stale = FALSE
    /\ readerThreads = 0
    /\ callerPc = "ctor"
    /\ lastCall = "other"
    /\ seekTarget = 0
    /\ stoppedBy = "none"

readerVars == << readerPc, r_sample, r_current, r_stale, readerThreads >>
historyOther == lastCall' = "other" /\ seekTarget' = 0

\* Writes a pipeline state back to the members.
SetPipeline(s) ==
    /\ m_readFraction' = s.frac
    /\ m_cpuFrameBuffer' = s.cpu
    /\ m_gpuFrameBuffer' = s.gpu
    /\ m_currentFrame' = s.cur
    /\ m_isPlaying' = s.playing
    /\ stoppedBy' = IF m_isPlaying /\ ~s.playing THEN "prebuffer" ELSE stoppedBy

\* ------------------------------------------------------ the caller's thread

\* Movie::Movie: prebuffers when the options ask for it.
Construct(prebuffer) ==
    /\ callerPc = "ctor"
    /\ callerPc' = "idle"
    /\ SetPipeline(IF prebuffer THEN prebufferLoop(Pipeline) ELSE Pipeline)
    /\ lastCall' = IF prebuffer THEN "ctor" ELSE "other"
    /\ seekTarget' = 0
    /\ UNCHANGED << m_numSamples, m_options, corrupt, adv, m_jobsPending, m_loop, m_playbackRate,
                    m_forceRefreshCurrentFrame, elapsed, readerVars >>

\* Movie::prebuffer
Prebuffer ==
    /\ callerPc = "idle"
    /\ SetPipeline(prebufferLoop(Pipeline))
    /\ historyOther
    /\ UNCHANGED << m_numSamples, m_options, corrupt, adv, m_jobsPending, m_loop, m_playbackRate,
                    m_forceRefreshCurrentFrame, elapsed, readerVars, callerPc >>

\* Movie::play: Stopped -> Playing; starts the reader if it is not running and
\* queues a read.  The guard bounds how far a replay past the end may run on.
Play ==
    /\ callerPc = "idle"
    /\ m_readFraction < OverrunCap
    /\ IF isPlaying
       THEN UNCHANGED << m_isPlaying, m_jobsPending, readerPc, readerThreads, stoppedBy >>
       ELSE /\ m_isPlaying' = TRUE
            /\ m_jobsPending' = TRUE
            /\ readerPc' = IF ReaderRunning THEN readerPc ELSE "wait"
            /\ readerThreads' = IF ReaderRunning THEN readerThreads ELSE readerThreads + 1
            /\ stoppedBy' = "none"
    /\ historyOther
    /\ UNCHANGED << m_numSamples, m_options, corrupt, adv, m_loop, m_readFraction, m_playbackRate,
                    m_forceRefreshCurrentFrame, m_currentFrame, m_cpuFrameBuffer,
                    m_gpuFrameBuffer, elapsed, r_sample, r_current, r_stale, callerPc >>

\* Movie::stop, first half: signal termination and close the CPU buffer, which
\* wakes the reader wherever it is blocked.
StopBegin ==
    /\ callerPc = "idle"
    /\ m_isPlaying' = FALSE
    /\ callerPc' = "stop"
    /\ stoppedBy' = IF m_isPlaying THEN "stop" ELSE stoppedBy
    /\ historyOther
    /\ UNCHANGED << m_numSamples, m_options, corrupt, adv, m_jobsPending, m_loop, m_readFraction, m_playbackRate,
                    m_forceRefreshCurrentFrame, m_currentFrame, m_cpuFrameBuffer,
                    m_gpuFrameBuffer, elapsed, readerVars >>

\* Movie::stop, second half: join the reader, reopen the buffer, return.
StopJoin ==
    /\ callerPc = "stop"
    /\ ReaderExited
    /\ callerPc' = "idle"
    /\ lastCall' = "stop"
    /\ seekTarget' = 0
    /\ UNCHANGED << m_numSamples, m_options, corrupt, adv, m_isPlaying, m_jobsPending, m_loop, m_readFraction,
                    m_playbackRate, m_forceRefreshCurrentFrame, m_currentFrame,
                    m_cpuFrameBuffer, m_gpuFrameBuffer, elapsed, readerVars, stoppedBy >>

\* Movie::setPlaybackRate
SetPlaybackRate(rate) ==
    /\ callerPc = "idle"
    /\ m_playbackRate' = rate
    /\ historyOther
    /\ UNCHANGED << m_numSamples, m_options, corrupt, adv, m_isPlaying, m_jobsPending, m_loop, m_readFraction,
                    m_forceRefreshCurrentFrame, m_currentFrame, m_cpuFrameBuffer,
                    m_gpuFrameBuffer, elapsed, readerVars, callerPc, stoppedBy >>

\* Mutant: pause() also clears m_isPlaying.
Pause_Mut ==
    /\ callerPc = "idle"
    /\ m_playbackRate' = 0
    /\ m_isPlaying' = FALSE
    /\ historyOther
    /\ UNCHANGED << m_numSamples, m_options, corrupt, adv, m_jobsPending, m_loop, m_readFraction,
                    m_forceRefreshCurrentFrame, m_currentFrame, m_cpuFrameBuffer,
                    m_gpuFrameBuffer, elapsed, readerVars, callerPc, stoppedBy >>

\* Movie::pause: "leaves the read thread running. Same as setting the playback rate to 0."
Pause == SetPlaybackRate(0)

\* Movie & loop( bool loop = true ) { m_loop = loop; return *this; }
Loop(loop) ==
    /\ callerPc = "idle"
    /\ m_loop' = loop
    /\ historyOther
    /\ UNCHANGED << m_numSamples, m_options, corrupt, adv, m_isPlaying, m_jobsPending, m_readFraction, m_playbackRate,
                    m_forceRefreshCurrentFrame, m_currentFrame, m_cpuFrameBuffer,
                    m_gpuFrameBuffer, elapsed, readerVars, callerPc, stoppedBy >>

\* Movie::seek, first half: overwrite the progress tracker ("times greater than
\* the movie length will wrap"), close and clear both buffers under one lock.
SeekBegin(time) ==
    /\ callerPc = "idle"
    /\ m_readFraction' = time % Duration
    /\ m_cpuFrameBuffer' = << >>
    /\ m_gpuFrameBuffer' = << >>
    /\ callerPc' = "seek"
    /\ lastCall' = "other"
    /\ seekTarget' = time
    /\ r_stale' = (r_stale \/ readerPc \in {"push", "load", "cas"})
    /\ UNCHANGED << m_numSamples, m_options, corrupt, adv, m_isPlaying, m_jobsPending, m_loop, m_playbackRate,
                    m_forceRefreshCurrentFrame, m_currentFrame, elapsed, readerPc,
                    r_sample, r_current, readerThreads, stoppedBy >>

\* Movie::seekToSample: the seek to the start of a sample of the track.
SeekToSampleBegin(sample) == SeekBegin(sample * SampleTicks)

\* Movie::seek, second half: reopen the buffers, set the forced-refresh flag, return.
SeekEnd ==
    /\ callerPc = "seek"
    /\ m_forceRefreshCurrentFrame' = TRUE
    /\ callerPc' = "idle"
    /\ lastCall' = "seek"
    /\ UNCHANGED << m_numSamples, m_options, corrupt, adv, m_isPlaying, m_jobsPending, m_loop, m_readFraction,
                    m_playbackRate, m_currentFrame, m_cpuFrameBuffer, m_gpuFrameBuffer,
                    elapsed, readerVars, seekTarget, stoppedBy >>

\* Mutant: queueRead() leaves the pending flag as it is.
queueRead_Mut == m_jobsPending

\* Movie::queueRead: the value of m_jobsPending after it has signalled the
\* reader that there is work (it does so only while the movie is playing).
queueRead == IF isPlaying THEN TRUE ELSE m_jobsPending

\* Mutant: update() takes its frame with the blocking pop() and so waits for the
\* reader when nothing is buffered.
Update_Mut ==
    /\ callerPc = "idle"
    /\ m_cpuFrameBuffer # << >> \/ m_gpuFrameBuffer # << >>
    /\ LET s == bufferNextGPUSample(Pipeline)
           publish == (m_forceRefreshCurrentFrame \/ PacingElapsed) /\ s.gpu # << >>
       IN  /\ m_cpuFrameBuffer' = s.cpu
           /\ m_gpuFrameBuffer' = IF publish THEN Tail(s.gpu) ELSE s.gpu
           /\ m_currentFrame' = IF publish THEN Head(s.gpu) ELSE m_currentFrame
           /\ elapsed' = IF publish THEN 0 ELSE elapsed
           /\ m_forceRefreshCurrentFrame' = IF publish THEN FALSE ELSE m_forceRefreshCurrentFrame
    /\ m_jobsPending' = queueRead
    /\ historyOther
    /\ UNCHANGED << m_numSamples, m_options, corrupt, adv, m_isPlaying, m_loop, m_readFraction, m_playbackRate,
                    readerVars, callerPc, stoppedBy >>

\* Movie::update: upload one frame if a GPU slot is free; publish the next GPU
\* frame when the pacing interval has elapsed or a refresh is forced; queue a read.
Update ==
    /\ callerPc = "idle"
    /\ LET s == bufferNextGPUSample(Pipeline)
           publish == (m_forceRefreshCurrentFrame \/ PacingElapsed) /\ s.gpu # << >>
       IN  /\ m_cpuFrameBuffer' = s.cpu
           /\ m_gpuFrameBuffer' = IF publish THEN Tail(s.gpu) ELSE s.gpu
           /\ m_currentFrame' = IF publish THEN Head(s.gpu) ELSE m_currentFrame
           /\ elapsed' = IF publish THEN 0 ELSE elapsed
           /\ m_forceRefreshCurrentFrame' = IF publish THEN FALSE ELSE m_forceRefreshCurrentFrame
    /\ m_jobsPending' = queueRead
    /\ historyOther
    /\ UNCHANGED << m_numSamples, m_options, corrupt, adv, m_isPlaying, m_loop, m_readFraction, m_playbackRate,
                    readerVars, callerPc, stoppedBy >>

\* Wall-clock time passes.
Tick ==
    /\ elapsed = 0
    /\ elapsed' = 1
    /\ UNCHANGED << m_numSamples, m_options, corrupt, adv, m_isPlaying, m_jobsPending, m_loop, m_readFraction,
                    m_playbackRate, m_forceRefreshCurrentFrame, m_currentFrame,
                    m_cpuFrameBuffer, m_gpuFrameBuffer, readerVars, callerPc,
                    lastCall, seekTarget, stoppedBy >>

\* ------------------------------------------------------- the reader thread

\* Job done: clear the pending flag and go back to the idle wait.
ReaderIdle ==
    /\ readerPc' = "wait"
    /\ m_jobsPending' = FALSE
    /\ r_sample' = 0
    /\ r_current' = 0
    /\ r_stale' = FALSE
    /\ readerThreads' = readerThreads

\* The idle wait on m_jobsPendingCV: wakes on queued work or on termination.
RWait ==
    /\ readerPc = "wait"
    /\ m_jobsPending \/ ~isPlaying
    /\ IF ~isPlaying
       THEN readerPc' = "none" /\ m_jobsPending' = FALSE /\ readerThreads' = readerThreads - 1
       ELSE readerPc' = "sample" /\ UNCHANGED << m_jobsPending, readerThreads >>
    /\ UNCHANGED << m_numSamples, m_options, corrupt, adv, m_isPlaying, m_loop, m_readFraction, m_playbackRate,
                    m_forceRefreshCurrentFrame, m_currentFrame, m_cpuFrameBuffer,
                    m_gpuFrameBuffer, elapsed, r_sample, r_current, r_stale, callerPc,
                    lastCall, seekTarget, stoppedBy >>

\* (a) compute the next sample index from the progress tracker.
RSample ==
    /\ readerPc = "sample"
    /\ r_sample' = getReadSample(m_readFraction)
    /\ r_stale' = FALSE
    /\ readerPc' = "push"
    /\ UNCHANGED << m_numSamples, m_options, corrupt, adv, m_isPlaying, m_jobsPending, m_loop, m_readFraction,
                    m_playbackRate, m_forceRefreshCurrentFrame, m_currentFrame,
                    m_cpuFrameBuffer, m_gpuFrameBuffer, elapsed, r_current, readerThreads,
                    callerPc, lastCall, seekTarget, stoppedBy >>

\* (b)-(c) decode and push: blocks while the buffer is full; a closed buffer
\* fails the push and the job ends without advancing.
RPush ==
    /\ readerPc = "push"
    /\ \/ /\ getFrame(r_sample) = NoFrame
          /\ readerPc' = "load"
          /\ r_sample' = 0
          /\ UNCHANGED << m_cpuFrameBuffer, m_jobsPending, r_current, r_stale, readerThreads >>
       \/ /\ getFrame(r_sample) # NoFrame
          /\ cpuClosed
          /\ ReaderIdle
          /\ UNCHANGED m_cpuFrameBuffer
       \/ /\ getFrame(r_sample) # NoFrame
          /\ ~cpuClosed
          /\ Len(m_cpuFrameBuffer) < cpuBufferSize
          /\ m_cpuFrameBuffer' = Append(m_cpuFrameBuffer, getFrame(r_sample))
          /\ readerPc' = "load"
          /\ r_sample' = 0
          /\ UNCHANGED << m_jobsPending, r_current, r_stale, readerThreads >>
    /\ UNCHANGED << m_numSamples, m_options, corrupt, adv, m_isPlaying, m_loop, m_readFraction, m_playbackRate,
                    m_forceRefreshCurrentFrame, m_currentFrame, m_gpuFrameBuffer,
                    elapsed, callerPc, lastCall, seekTarget, stoppedBy >>

\* incrementReadFraction: auto current = m_readFraction.load();
RLoad ==
    /\ readerPc = "load"
    /\ r_current' = m_readFraction
    /\ readerPc' = "cas"
    /\ UNCHANGED << m_numSamples, m_options, corrupt, adv, m_isPlaying, m_jobsPending, m_loop, m_readFraction,
                    m_playbackRate, m_forceRefreshCurrentFrame, m_currentFrame,
                    m_cpuFrameBuffer, m_gpuFrameBuffer, elapsed, r_sample, r_stale,
                    readerThreads, callerPc, lastCall, seekTarget, stoppedBy >>

\* incrementReadFraction: while (!compare_exchange_weak(current, current + increment));
\* a failed exchange reloads current and tries again.  (A spurious failure of the
\* weak exchange reloads the same value: it leaves this state as it is.)
RCas ==
    /\ readerPc = "cas"
    /\ IF ExchangeSucceeds(r_current)
       THEN /\ m_readFraction' = AdvancedFraction(r_current)
            /\ readerPc' = "eos"
            /\ r_current' = 0
            /\ r_stale' = FALSE
       ELSE /\ r_current' = m_readFraction
            /\ UNCHANGED << m_readFraction, readerPc, r_stale >>
    /\ UNCHANGED << m_numSamples, m_options, corrupt, adv, m_isPlaying, m_jobsPending, m_loop, m_playbackRate,
                    m_forceRefreshCurrentFrame, m_currentFrame, m_cpuFrameBuffer,
                    m_gpuFrameBuffer, elapsed, r_sample, readerThreads, callerPc, lastCall,
                    seekTarget, stoppedBy >>

\* End-of-stream policy: wrap to 0 when looping, else stop and exit.
REos ==
    /\ readerPc = "eos"
    /\ IF EndOfStream(m_readFraction)
       THEN IF LoopsAtEnd
            THEN /\ m_readFraction' = 0
                 /\ ReaderIdle
                 /\ UNCHANGED << m_isPlaying, stoppedBy >>
            ELSE /\ m_isPlaying' = FALSE
                 /\ stoppedBy' = IF m_isPlaying THEN "reader" ELSE stoppedBy
                 /\ readerPc' = "none"
                 /\ readerThreads' = readerThreads - 1
                 /\ m_jobsPending' = FALSE
                 /\ r_sample' = 0
                 /\ r_current' = 0
                 /\ r_stale' = FALSE
                 /\ UNCHANGED m_readFraction
       ELSE /\ ReaderIdle
            /\ UNCHANGED << m_readFraction, m_isPlaying, stoppedBy >>
    /\ UNCHANGED << m_numSamples, m_options, corrupt, adv, m_loop, m_playbackRate, m_forceRefreshCurrentFrame,
                    m_currentFrame, m_cpuFrameBuffer, m_gpuFrameBuffer, elapsed,
                    callerPc, lastCall, seekTarget >>

\* No progress-tracker run is in progress.
NoWriters == [start |-> 0, pc |-> << >>, current |-> << >>, retried |-> << >>]

Init == InitWith(NumSamples) /\ corrupt = {} /\ adv = NoWriters

InitScenario == InitWith(ScenarioSamples) /\ corrupt = {} /\ adv = NoWriters

ReaderNext == RWait \/ RSample \/ RPush \/ RLoad \/ RCas \/ REos

CallerNext ==
    \/ \E prebuffer \in BOOLEAN : Construct(prebuffer)
    \/ Prebuffer
    \/ Play
    \/ StopBegin
    \/ StopJoin
    \/ Pause
    \/ \E rate \in PlaybackRates : SetPlaybackRate(rate)
    \/ \E loop \in BOOLEAN : Loop(loop)
    \/ \E sample \in 0..(m_numSamples - 1) : SeekToSampleBegin(sample)
    \/ SeekEnd
    \/ Update

Next == CallerNext \/ ReaderNext \/ Tick

Spec == Init /\ [][Next]_vars

\* A movie that is never played: the calls that run on the caller's thread
\* alone, with seek() at every time of the clock's resolution (where the reader
\* runs, the seeks are those of seekToSample).
CallerOnlyNext ==
    \/ \E prebuffer \in BOOLEAN : Construct(prebuffer)
    \/ Prebuffer
    \/ Pause
    \/ \E rate \in PlaybackRates : SetPlaybackRate(rate)
    \/ \E loop \in BOOLEAN : Loop(loop)
    \/ \E time \in 0..Duration : SeekBegin(time)
    \/ SeekEnd
    \/ Update
    \/ Tick

CallerSpec == InitScenario /\ [][CallerOnlyNext]_vars

\* The calls and steps that decide whether stop() and seek() return: pacing
\* (the clock, the playback rate) is left at its initial value.
WakeNext ==
    \/ \E prebuffer \in BOOLEAN : Construct(prebuffer)
    \/ Prebuffer
    \/ Play
    \/ StopBegin
    \/ StopJoin
    \/ \E loop \in BOOLEAN : Loop(loop)
    \/ \E sample \in 0..(m_numSamples - 1) : SeekToSampleBegin(sample)
    \/ SeekEnd
    \/ Update
    \/ ReaderNext

\* A file with samples the decoder fails on (some, not all), played from its
\* construction on: play, loop, update and the reader.
InitDecode ==
    /\ InitWith(NumSamples)
    /\ corrupt \in { c \in SUBSET (0..(NumSamples - 1)) : c # {} /\ c # 0..(NumSamples - 1) }
    /\ adv = NoWriters

PlaybackNext ==
    \/ \E prebuffer \in BOOLEAN : Construct(prebuffer)
    \/ Play
    \/ \E loop \in BOOLEAN : Loop(loop)
    \/ Update
    \/ Tick
    \/ ReaderNext

DecodeSpec == InitDecode /\ [][PlaybackNext]_vars

\* The same calls on a file that decodes, under the hypotheses of sustained
\* playback: update() keeps being called, wall-clock time advances, and the
\* reader thread runs whenever it can.
LiveSpec ==
    Init /\ [][PlaybackNext]_vars /\ WF_vars(Update) /\ WF_vars(Tick) /\ WF_vars(ReaderNext)

\* ------------------------------------------- the progress tracker on its own
\* NumWriters threads each call incrementReadFraction(m_fpf) once, with no
\* seek in between: adv holds the value the run started from and, per writer,
\* its position, its local `current` and whether an exchange of its failed
\* ("conflict": the value had changed; "spurious": the weak exchange failed
\* although it had not).

Writers == 1..NumWriters

advOther == << m_numSamples, corrupt, m_options, m_isPlaying, m_jobsPending, m_loop,
               m_playbackRate, m_forceRefreshCurrentFrame, m_currentFrame,
               m_cpuFrameBuffer, m_gpuFrameBuffer, elapsed, readerVars, callerPc,
               lastCall, seekTarget, stoppedBy >>

\* The writers are started on the constructed movie.
AdvStart ==
    /\ callerPc = "idle"
    /\ adv = NoWriters
    /\ adv' = [start |-> m_readFraction,
               pc |-> [w \in Writers |-> "load"],
               current |-> [w \in Writers |-> 0],
               retried |-> [w \in Writers |-> "no"]]
    /\ UNCHANGED << m_readFraction, advOther >>

\* auto current = m_readFraction.load();
AdvLoad(w) ==
    /\ adv # NoWriters
    /\ adv.pc[w] = "load"
    /\ adv' = [adv EXCEPT !.pc[w] = "cas", !.current[w] = m_readFraction]
    /\ UNCHANGED << m_readFraction, advOther >>

\* while (!m_readFraction.compare_exchange_weak(current, current + increment));
\* the exchange stores and ends the call, or fails and reloads current: because
\* the value has changed, or, being the weak form, spuriously.
AdvCas(w) ==
    /\ adv # NoWriters
    /\ adv.pc[w] = "cas"
    /\ \/ /\ ExchangeSucceeds(adv.current[w])
          /\ m_readFraction' = AdvancedFraction(adv.current[w])
          /\ adv' = [adv EXCEPT !.pc[w] = "done"]
       \/ /\ ~ExchangeSucceeds(adv.current[w])
          /\ adv' = [adv EXCEPT !.current[w] = m_readFraction, !.retried[w] = "conflict"]
          /\ UNCHANGED m_readFraction
       \/ /\ ExchangeSucceeds(adv.current[w])
          /\ adv' = [adv EXCEPT !.retried[w] = "spurious"]
          /\ UNCHANGED m_readFraction
    /\ UNCHANGED advOther

CasNext ==
    \/ \E prebuffer \in BOOLEAN : Construct(prebuffer)
    \/ AdvStart
    \/ \E w \in Writers : AdvLoad(w)
    \/ \E w \in Writers : AdvCas(w)

CasSpec == Init /\ [][CasNext]_vars

\* The reader thread runs whenever it can; a call in progress runs to its return.
FairSpec ==
    Init /\ [][WakeNext]_vars /\ WF_vars(ReaderNext) /\ WF_vars(StopJoin) /\ WF_vars(SeekEnd)


\* ------------------------------------------------------------------ claims

\* C1: in every reachable state the CPU frame buffer holds at most
\* cpuBufferSize frames and the GPU frame buffer at most gpuBufferSize frames.
C1_BufferOccupancy ==
    /\ Len(m_cpuFrameBuffer) <= m_options.cpuBufferSize
    /\ Len(m_gpuFrameBuffer) <= m_options.gpuBufferSize

\* Both buffers are full at the default capacities and the reader is blocked in its push.
C1_Witness ==
    /\ m_options.cpuBufferSize = DefaultCpuBufferSize
    /\ m_options.gpuBufferSize = DefaultGpuBufferSize
    /\ Len(m_cpuFrameBuffer) = DefaultCpuBufferSize
    /\ Len(m_gpuFrameBuffer) = DefaultGpuBufferSize
    /\ readerPc = "push"
    /\ callerPc = "idle"

\* C2: once stop() has returned the reader thread has exited, and as long as
\* the caller makes no further call no step changes the CPU buffer, the GPU
\* buffer or ReadProgress.
C2_StableAfterStop ==
    [][ lastCall = "stop" =>
          /\ readerPc = "none"
          /\ lastCall' = "stop" =>
                UNCHANGED << m_cpuFrameBuffer, m_gpuFrameBuffer, m_readFraction >> ]_vars

\* stop() has returned on a movie it stopped while frames were buffered, and
\* wall-clock time has passed since.
C2_Witness ==
    /\ lastCall = "stop"
    /\ stoppedBy = "stop"
    /\ m_cpuFrameBuffer # << >>
    /\ elapsed = 1

C4_SeekAccuracy ==
    [][ (lastCall = "seek" /\ seekTarget < Duration /\ Prebuffer) =>
          /\ getElapsedTime' - seekTarget <= SampleTicks
          /\ seekTarget - getElapsedTime' <= SampleTicks ]_vars

\* C5 (as claimed): with the playback rate at 0, update() never changes the
\* current frame.
C5_PausedFrameFrozen_Original ==
    [][ (m_playbackRate = 0 /\ Update) => m_currentFrame' = m_currentFrame ]_vars

\* C5 (amended): with the playback rate at 0 and no forced refresh pending
\* from a seek(), update() leaves the current frame unchanged however much
\* wall-clock time has elapsed.
C5_PausedFrameFrozen ==
    [][ (m_playbackRate = 0 /\ ~m_forceRefreshCurrentFrame /\ Update) =>
          m_currentFrame' = m_currentFrame ]_vars

\* Paused, a pacing interval has elapsed and an uploaded frame is waiting:
\* at the native rate the next update() would publish it.
C5_Witness ==
    /\ m_playbackRate = 0
    /\ ~m_forceRefreshCurrentFrame
    /\ elapsed = 1
    /\ m_gpuFrameBuffer # << >>
    /\ m_currentFrame # NoFrame
    /\ m_isPlaying
    /\ callerPc = "idle"

\* C6 (as claimed): in every reachable state the sample index derived from
\* ReadProgress lies in [0, numSamples).
C6_ReadSampleInRange ==
    getReadSample(m_readFraction) \in 0..(m_numSamples - 1)

C8_EndOfStreamStops ==
    [][ (~m_loop /\ m_readFraction >= Duration /\ REos) =>
          /\ ~isPlaying'
          /\ readerPc' = "none"
          /\ callerPc' = callerPc ]_vars

\* The reader stopped a playing movie at end-of-stream and exited; no stop() is in progress.
C8_Witness ==
    /\ stoppedBy = "reader"
    /\ ~m_isPlaying
    /\ readerPc = "none"
    /\ callerPc = "idle"
    /\ m_readFraction >= Duration

\* C9 (as claimed): every transition of the playback state into Stopped is
\* the first step of a stop() call.
C9_StoppedOnlyByStop_Original ==
    [][ (m_isPlaying /\ ~m_isPlaying') => StopBegin ]_vars

\* C9 (amended): every transition into Stopped is a stop() call or a decode
\* step (the reader's, or prebuffer()'s) that reaches end-of-stream with
\* looping disabled; play, pause, seek, setPlaybackRate, loop and update
\* never stop the movie.
C9_StoppedOnlyByStopOrEnd ==
    [][ (m_isPlaying /\ ~m_isPlaying') =>
          \/ StopBegin
          \/ (REos \/ Prebuffer) /\ ~m_loop /\ m_readFraction' >= Duration ]_vars

\* A playing movie was stopped by stop().
C9_Witness ==
    /\ stoppedBy = "stop"
    /\ ~m_isPlaying
    /\ m_currentFrame # NoFrame

\* Enough samples are left, from the read position, to fill both buffers and
\* publish one frame without reaching the end of the track.
EnoughSamplesLeft ==
    m_numSamples - getReadSample(m_readFraction)
        >= m_options.cpuBufferSize + m_options.gpuBufferSize + 1

C11_ProgressMonotonic ==
    [][ m_readFraction' < m_readFraction =>
          \/ \E time \in 0..Duration : SeekBegin(time)
          \/ m_loop /\ (REos \/ Prebuffer) ]_vars

\* The reader has committed an advance past the first sample of a playing
\* movie that nothing has sought in or stopped.
C11_Witness ==
    /\ m_isPlaying
    /\ readerPc = "eos"
    /\ m_readFraction > 0
    /\ m_readFraction < Duration
    /\ stoppedBy = "none"

\* The frames in flight: those in the CPU buffer, those in the GPU buffer and
\* the one the reader has decoded and is handing to the CPU buffer.
InFlight ==
    m_cpuFrameBuffer \o m_gpuFrameBuffer \o
        (IF readerPc = "push" /\ getFrame(r_sample) # NoFrame THEN << getFrame(r_sample) >> ELSE << >>)

\* C12 (as claimed): in every reachable state no two frames in flight carry
\* the same sample index.
C12_InFlightDistinct ==
    \A i, j \in 1..Len(InFlight) : i # j => InFlight[i] # InFlight[j]

\* C13: at most one reader thread exists at any time; play() on a movie whose
\* reader is running starts no second reader, and play() after stop() has
\* returned starts exactly one.
C13_SingleReader ==
    /\ [](readerThreads <= 1)
    /\ [][ Play =>
             /\ readerPc # "none" => readerThreads' = readerThreads
             /\ lastCall = "stop" => readerThreads' = 1 ]_vars

\* The movie has stopped at end-of-stream under prebuffer() while its reader,
\* started by an earlier play(), is still running: play() can be called again.
C13_Witness ==
    /\ stoppedBy = "prebuffer"
    /\ ~m_isPlaying
    /\ readerPc # "none"
    /\ readerThreads = 1
    /\ callerPc = "idle"
    /\ m_readFraction < OverrunCap

Members ==
    << m_numSamples, m_options, m_isPlaying, m_jobsPending, m_loop, m_readFraction,
       m_playbackRate, m_forceRefreshCurrentFrame, m_currentFrame, m_cpuFrameBuffer,
       m_gpuFrameBuffer, elapsed >>

\* C15 (as claimed): when the decode of a sample fails, the reader records a
\* sticky error in the movie (some member changes to hold it), enqueues no
\* frame for that sample, goes on to advance ReadProgress past it, and the
\* movie stays Playing.
C15_DecodeFailureSkips ==
    [][ (readerPc = "push" /\ r_sample \in corrupt /\ RPush) =>
          /\ Members' # Members
          /\ m_cpuFrameBuffer' = m_cpuFrameBuffer
          /\ readerPc' = "load"
          /\ m_isPlaying' = m_isPlaying ]_vars

\* C16 (as claimed): a reader iteration that computed its sample index before
\* a seek and commits its advance after the seek's overwrite leaves
\* ReadProgress mapping to the sample the seek set.
C16_SeekNotAltered ==
    [][ (r_stale /\ RCas) => getReadSample(m_readFraction') = getReadSample(m_readFraction) ]_vars

\* C17 (as claimed): the reader never enqueues a frame whose sample index it
\* computed before a seek (checked where that index is not the one sought), so
\* that after seek() has returned no buffer holds such a frame; and seek()
\* clears both buffers in one step.
C17_NoStaleFrames ==
    /\ [][ (r_stale /\ r_sample # getReadSample(m_readFraction) /\ RPush) =>
             m_cpuFrameBuffer' = m_cpuFrameBuffer ]_vars
    /\ [][ (\E time \in 0..Duration : SeekBegin(time)) =>
             m_cpuFrameBuffer' = << >> /\ m_gpuFrameBuffer' = << >> ]_vars

\* The writers whose incrementReadFraction call has returned.
WritersDone == { w \in Writers : adv.pc[w] = "done" }

\* C18 (as claimed): concurrent advances lose no update (the value is the
\* start value plus one increment per completed advance, so start plus the
\* sum of all of them once all are done), and an advance retries only when
\* the value has changed since it loaded it.
C18_NoLostUpdate_Original ==
    /\ [](adv # NoWriters =>
            m_readFraction = adv.start + SampleTicks * Cardinality(WritersDone))
    /\ [][ \A w \in Writers :
             (adv # NoWriters /\ AdvCas(w) /\ adv'.pc[w] = "cas") =>
                m_readFraction # adv.current[w] ]_vars

\* C18 (amended): no update is lost, and an advance retries only when its
\* exchange failed: the value has changed since it loaded it, or the weak
\* exchange failed spuriously.
C18_NoLostUpdate ==
    /\ [](adv # NoWriters =>
            m_readFraction = adv.start + SampleTicks * Cardinality(WritersDone))
    /\ [][ \A w \in Writers :
             (adv # NoWriters /\ AdvCas(w) /\ adv'.pc[w] = "cas") =>
                m_readFraction # adv.current[w] \/ adv'.retried[w] = "spurious" ]_vars

\* All advances have completed, one of them after losing an exchange to
\* another writer.
C18_Witness ==
    /\ adv # NoWriters
    /\ WritersDone = Writers
    /\ \E w \in Writers : adv.retried[w] = "conflict"
    /\ m_readFraction = adv.start + SampleTicks * NumWriters

\* C19: with the forced-refresh flag set, update() publishes the first frame
\* available even if the pacing interval has not elapsed and clears the flag;
\* with no frame available the flag stays set; with the flag clear, update()
\* publishes nothing before the pacing interval has elapsed.
C19_ForcedRefreshOnce ==
    [][ Update =>
          /\ (m_forceRefreshCurrentFrame /\ m_gpuFrameBuffer # << >>) =>
                m_currentFrame' = Head(m_gpuFrameBuffer) /\ ~m_forceRefreshCurrentFrame'
          /\ (m_forceRefreshCurrentFrame /\ m_gpuFrameBuffer = << >> /\ m_cpuFrameBuffer # << >>) =>
                m_currentFrame' = Head(m_cpuFrameBuffer) /\ ~m_forceRefreshCurrentFrame'
          /\ (m_forceRefreshCurrentFrame /\ m_gpuFrameBuffer = << >> /\ m_cpuFrameBuffer = << >>) =>
                m_currentFrame' = m_currentFrame /\ m_forceRefreshCurrentFrame'
          /\ (~m_forceRefreshCurrentFrame /\ elapsed = 0) =>
                m_currentFrame' = m_currentFrame /\ ~m_forceRefreshCurrentFrame' ]_vars

\* seek() has returned on a movie that has published frames, the reader has
\* decoded a frame since, and the pacing interval has not elapsed.
C19_Witness ==
    /\ lastCall = "seek"
    /\ m_forceRefreshCurrentFrame
    /\ elapsed = 0
    /\ m_playbackRate > 0
    /\ m_currentFrame # NoFrame
    /\ m_cpuFrameBuffer # << >>
    /\ callerPc = "idle"

\* C20 (as claimed): while the movie is Playing at a positive rate it is never
\* the case that the reader is parked in its idle wait with no pending-job
\* signal while the CPU buffer is empty and unread samples remain.
C20_NeverParked_Original ==
    ~ ( /\ m_isPlaying
        /\ m_playbackRate > 0
        /\ callerPc = "idle"
        /\ readerPc = "wait"
        /\ ~m_jobsPending
        /\ m_cpuFrameBuffer = << >>
        /\ ~EndOfStream(m_readFraction) )

\* C20 (amended): the reader is never left parked: every update() of a
\* Playing movie leaves the pending-job signal set, and, with update() called
\* repeatedly as wall-clock time advances, the published frame of a movie
\* Playing at a positive rate is eventually replaced by another sample's
\* frame, until the movie stops at end-of-stream.
C20_NeverParked ==
    /\ [][ (Update /\ m_isPlaying) => m_jobsPending' ]_vars
    /\ \A k \in 0..(NumSamples - 1) :
          (m_isPlaying /\ m_playbackRate > 0 /\ m_currentFrame = k)
              ~> (m_currentFrame # k \/ ~m_isPlaying \/ m_playbackRate = 0)

\* A frame is published and due for replacement, nothing is buffered, samples
\* remain, and the reader is parked in its idle wait with no pending-job signal.
C20_Witness ==
    /\ m_isPlaying
    /\ m_playbackRate > 0
    /\ callerPc = "idle"
    /\ readerPc = "wait"
    /\ ~m_jobsPending
    /\ m_cpuFrameBuffer = << >>
    /\ m_gpuFrameBuffer = << >>
    /\ m_currentFrame # NoFrame
    /\ elapsed = 1
    /\ ~EndOfStream(m_readFraction)

====
